---- MODULE Spec2Model ----
(***************************************************************************)
(* Model of agent/entrypoint.py: the main() coroutine that validates the   *)
(* environment, loads the prompts, opens a ClaudeSDKClient session,        *)
(* consumes the response stream block by block (ProgressTracker, tools_used,*)
(* reasoning display sampling), and finally checks the recommendations     *)
(* file and exits.                                                         *)
(*                                                                         *)
(* Strings that the code inspects (strip, lower, upper, slicing, `in`) are *)
(* sequences of one-character strings.                                     *)
(***************************************************************************)
EXTENDS Integers, Sequences, FiniteSets, TLC

\* ---------------------------------------------------------------- bounds
\* Number of content blocks of AssistantMessages processed in one run.
MaxEvents == 3
\* Length of the sample texts and commands that exceed the display limit.
LongLen == 101

\* ------------------------------------------------------ program constants
\* block.input.get("command", "")[:100]
CommandLimit == 100
\* len(text) > 100 / text[:100]
TextLimit == 100

\* ------------------------------------------------------- string helpers
UpperChars == <<"A","B","C","D","E","F","G","H","I","J","K","L","M",
                "N","O","P","Q","R","S","T","U","V","W","X","Y","Z">>
LowerChars == <<"a","b","c","d","e","f","g","h","i","j","k","l","m",
                "n","o","p","q","r","s","t","u","v","w","x","y","z">>
Whitespace == {" ", "\t", "\n"}

\* the lower-case letter of each upper-case letter, and the converse
LowerOf ==
    [c \in {UpperChars[k] : k \in 1..26} |->
        LowerChars[CHOOSE k \in 1..26 : UpperChars[k] = c]]
UpperOf ==
    [c \in {LowerChars[k] : k \in 1..26} |->
        UpperChars[CHOOSE k \in 1..26 : LowerChars[k] = c]]

\* str.lower()
Lower(t) ==
    [i \in 1..Len(t) |-> IF t[i] \in DOMAIN LowerOf THEN LowerOf[t[i]] ELSE t[i]]

\* str.upper()
Upper(t) ==
    [i \in 1..Len(t) |-> IF t[i] \in DOMAIN UpperOf THEN UpperOf[t[i]] ELSE t[i]]

\* str.strip(): drop leading and trailing whitespace
\* the text taken as it is, surrounding whitespace kept
Strip_KeepsWhitespace(t) == t

Strip(t) ==
    IF \A i \in 1..Len(t) : t[i] \in Whitespace THEN <<>>
    ELSE LET lo == CHOOSE i \in 1..Len(t) :
                      /\ t[i] \notin Whitespace
                      /\ \A j \in 1..(i - 1) : t[j] \in Whitespace
             hi == CHOOSE i \in 1..Len(t) :
                      /\ t[i] \notin Whitespace
                      /\ \A j \in (i + 1)..Len(t) : t[j] \in Whitespace
         IN  SubSeq(t, lo, hi)

\* t[:n]
Prefix(t, n) == SubSeq(t, 1, IF Len(t) < n THEN Len(t) ELSE n)

\* `k in t` for strings
Contains(t, k) ==
    \E i \in 1..(Len(t) - Len(k) + 1) :
        \A j \in 1..Len(k) : t[i + j - 1] = k[j]

\* the "..." appended to truncated display texts
Ellipsis == <<".", ".", ".">>

\* the keyword list of the reasoning display rule
Keywords ==
    { <<"a","n","a","l","y","s","i","s">>,
      <<"r","e","c","o","m","m","e","n","d","a","t","i","o","n","s">>,
      <<"f","o","u","n","d">>,
      <<"c","r","e","a","t","i","n","g">>,
      <<"c","o","m","p","l","e","t","e">>,
      <<"e","x","a","m","i","n","i","n","g">>,
      <<"c","h","e","c","k","i","n","g">>,
      <<"w","r","i","t","i","n","g">>,
      <<"g","e","n","e","r","a","t","i","n","g">> }

\* any(keyword in text.lower() for keyword in [...])
HasKeyword(text) ==
    LET lowered == Lower(text) IN \E k \in Keywords : Contains(lowered, k)


\* ------------------------------------------------------------- inputs
\* Sample parameter values carried by ToolUseBlock.input
PathA == <<"a", ".", "p", "y">>
PathB == <<"o", "u", "t">>
CmdShort == <<"l", "s">>
CmdLong == [i \in 1..LongLen |-> "x"]
Pattern == <<"T", "O", "D", "O">>
Dir == <<"s", "r", "c">>
\* a JSON null parameter value (Python None): not a string
NoneValue == <<"None">>

\* Sample TextBlock.text values
TextEmpty == <<>>
TextBlank == <<" ", "\n">>
TextPlain == <<" ", "o", "k", "\n">>
TextDone == <<"A", "l", "l", " ", "C", "O", "M", "P", "L", "E", "T", "E">>
TextLong == [i \in 1..LongLen |-> "y"]
TextSamples == {TextEmpty, TextBlank, TextPlain, TextDone, TextLong}

NoInput == [k \in {} |-> <<>>]

\* content blocks of an AssistantMessage
ToolUseBlock(name, input) ==
    [type |-> "ToolUseBlock", name |-> name, input |-> input,
     text |-> <<>>, is_error |-> "absent"]
TextBlock(text) ==
    [type |-> "TextBlock", name |-> "", input |-> NoInput,
     text |-> text, is_error |-> "absent"]
\* is_error is Optional[bool]: "true", "false" or "none"
ToolResultBlock(is_error) ==
    [type |-> "ToolResultBlock", name |-> "", input |-> NoInput,
     text |-> <<>>, is_error |-> is_error]

ToolUseSamples ==
    { ToolUseBlock("Read", [file_path |-> PathA]),
      ToolUseBlock("Read", NoInput),
      ToolUseBlock("Write", [file_path |-> PathB]),
      ToolUseBlock("MultiEdit", NoInput),
      ToolUseBlock("Edit", [file_path |-> PathA]),
      ToolUseBlock("Bash", [command |-> CmdShort]),
      ToolUseBlock("Bash", [command |-> CmdLong]),
      ToolUseBlock("Bash", [command |-> NoneValue]),
      ToolUseBlock("Grep", [pattern |-> Pattern, path |-> Dir]),
      ToolUseBlock("Glob", NoInput),
      ToolUseBlock("TodoWrite", NoInput),
      ToolUseBlock("read", [file_path |-> PathA]) }

BlockSamples ==
    ToolUseSamples
    \cup {TextBlock(t) : t \in TextSamples}
    \cup {ToolResultBlock(e) : e \in {"true", "false", "none"}}

\* CONTEXT_FILE environment values
ContextFileSamples ==
    { <<>>,
      <<"c","l","a","u","d","e",".","m","d">>,
      <<"A","G","E","N","T","S",".","m","d">>,
      <<"R","E","A","D","M","E",".","m","d">> }

\* exceptions the SDK calls can raise: the two kinds main() names, and any
\* other subclass of Exception
SdkErrors == {"CLINotFoundError", "ProcessError", "Exception"}

\* dict.get(key, default)
Get(input, key, default) ==
    IF key \in DOMAIN input THEN input[key] ELSE default

\* -------------------------------------------------------------- state
VARIABLES
    pc,                     \* position of main()
    tracker,                \* ProgressTracker: the four lists
    tools_used,             \* set of tool names
    claude_reasoning_count, \* counter of non-empty reasoning blocks
    logged,                 \* lines printed by log(), in order
    exit_status,            \* process exit status, "running" until exit
    outcomes,               \* terminal results reported, in order
    sdk_calls,              \* client methods called so far
    seen,                   \* history: blocks taken from AssistantMessages
    raised,                 \* history: where an SDK/stream error was raised
    report,                 \* history: what the report check observed
    summary                 \* history: the counts the last get_summary call
                            \* returned, and how many calls in a row (with
                            \* no add_* call between them) it ends

vars == <<pc, tracker, tools_used, claude_reasoning_count, logged,
          exit_status, outcomes, sdk_calls, seen, raised, report, summary>>

NoRaise == [at |-> "none", exc |-> "none"]
NoSummary == [counts |-> <<>>, repeat |-> 0]

\* a line of the log; ev is the ordinal of the block that produced it
\* (0 for lines not produced by a block)
Line(kind, text, extra, ev) ==
    [kind |-> kind, text |-> text, extra |-> extra, ev |-> ev]

\* log changed to put the new line first
Log_Prepend(lg, line) == <<line>> \o lg

\* log(message)
Log(lg, line) == Append(lg, line)

\* ProgressTracker.__init__
NewTracker ==
    [files_read |-> <<>>, files_written |-> <<>>,
     commands_run |-> <<>>, searches_performed |-> <<>>]

Init ==
    /\ pc = "validate"
    /\ tracker = NewTracker
    /\ tools_used = {}
    /\ claude_reasoning_count = 0
    /\ logged = <<>>
    /\ exit_status = "running"
    /\ outcomes = <<>>
    /\ sdk_calls = {}
    /\ seen = <<>>
    /\ raised = NoRaise
    /\ report = "unchecked"
    /\ summary = NoSummary

\* the exit status with a warning treated as success
ExitCode_WarningIsSuccess(outcome) ==
    IF outcome \in {"Success", "ReportUnreadable"} THEN 0 ELSE 1

\* the status each way of ending gives the process: sys.exit(1) after every
\* error or warning, 0 when main() returns
ExitCode(outcome) == IF outcome = "Success" THEN 0 ELSE 1

\* the error logged and reported, the run going on to the session
ExitEarly_GoesOn(kind, outcome) ==
    /\ logged' = Log(logged, Line(kind, <<>>, <<>>, 0))
    /\ outcomes' = Append(outcomes, outcome)
    /\ exit_status' = ExitCode(outcome)
    /\ pc' = "connect"

\* sys.exit(1) outside the guarded block, after logging an error
ExitEarly(kind, outcome) ==
    /\ logged' = Log(logged, Line(kind, <<>>, <<>>, 0))
    /\ outcomes' = Append(outcomes, outcome)
    /\ exit_status' = ExitCode(outcome)
    /\ pc' = "done"

\* validation of CLAUDE_API_KEY and CONTEXT_FILE
ValidateEnv ==
    /\ pc = "validate"
    /\ \E has_key \in BOOLEAN, value \in ContextFileSamples :
        LET context_file == Upper(value) IN
        IF ~has_key
        THEN ExitEarly("ApiKeyRequired", "ConfigurationError")
        ELSE IF context_file = <<>>
        THEN ExitEarly("ContextFileRequired", "ConfigurationError")
        ELSE IF context_file \notin
                  { <<"C","L","A","U","D","E",".","M","D">>,
                    <<"A","G","E","N","T","S",".","M","D">> }
        THEN ExitEarly("InvalidContextFile", "ConfigurationError")
        ELSE /\ pc' = "prompts"
             /\ UNCHANGED <<logged, outcomes, exit_status>>
    /\ UNCHANGED <<tracker, tools_used, claude_reasoning_count, sdk_calls,
                   seen, raised, report,
                   summary>>

\* reading the two prompt files, each from its package path or its fallback
LoadPrompts ==
    /\ pc = "prompts"
    /\ \E sys_pkg \in BOOLEAN, sys_abs \in BOOLEAN,
          opt_pkg \in BOOLEAN, opt_abs \in BOOLEAN,
          read_ok \in BOOLEAN :
        IF ~(sys_pkg \/ sys_abs)
        THEN ExitEarly("SystemPromptNotFound", "PromptLoadError")
        ELSE IF ~(opt_pkg \/ opt_abs)
        THEN ExitEarly("OptimizerPromptNotFound", "PromptLoadError")
        ELSE IF ~read_ok
        THEN ExitEarly("ErrorReadingPrompts", "PromptLoadError")
        ELSE /\ pc' = "connect"
             /\ UNCHANGED <<logged, outcomes, exit_status>>
    /\ UNCHANGED <<tracker, tools_used, claude_reasoning_count, sdk_calls,
                   seen, raised, report,
                   summary>>


\* ------------------------------------------------- the guarded block
\* the chain with the broad clause tried first
ExceptChain_BroadFirst(exc) ==
    IF exc \in SdkErrors THEN "UnexpectedFailure" ELSE "Propagate"

\* the chain without its last clause
ExceptChain_NoCatchAll(exc) ==
    IF exc = "CLINotFoundError" THEN "SessionToolingMissing"
    ELSE IF exc = "ProcessError" THEN "SessionProcessFailed"
    ELSE "Propagate"

\* the chain with a last clause that also catches SystemExit
ExceptChain_CatchesExit(exc) ==
    IF exc = "CLINotFoundError" THEN "SessionToolingMissing"
    ELSE IF exc = "ProcessError" THEN "SessionProcessFailed"
    ELSE "UnexpectedFailure"

\* The except clauses that close the guarded block, tried in order:
\* CLINotFoundError, ProcessError, Exception.  SystemExit (raised by
\* sys.exit inside the block) derives from BaseException only and matches
\* none of them.
ExceptChain(exc) ==
    IF exc = "CLINotFoundError" THEN "SessionToolingMissing"
    ELSE IF exc = "ProcessError" THEN "SessionProcessFailed"
    ELSE IF exc \in SdkErrors THEN "UnexpectedFailure"
    ELSE "Propagate"

\* what the matching except clause logs before its sys.exit(1)
HandlerLog(lg, outcome) ==
    IF outcome = "SessionToolingMissing"
    THEN Log(Log(lg, Line("ClaudeCliNotFound", <<>>, <<>>, 0)),
             Line("MakeSureCliInstalled", <<>>, <<>>, 0))
    ELSE IF outcome = "SessionProcessFailed"
    THEN Log(lg, Line("ClaudeProcessError", <<>>, <<>>, 0))
    ELSE Log(lg, Line("UnexpectedError", <<>>, <<>>, 0))

\* an exception leaves the guarded block with log lg and reports outs:
\* a matching clause logs, reports and calls sys.exit(1); an unmatched
\* exception (the SystemExit of a sys.exit(code) inside the block) ends
\* the process with its own code
RaiseInTry(exc, code, lg, outs) ==
    LET h == ExceptChain(exc) IN
    /\ logged' = IF h = "Propagate" THEN lg ELSE HandlerLog(lg, h)
    /\ outcomes' = IF h = "Propagate" THEN outs ELSE Append(outs, h)
    /\ exit_status' = IF h = "Propagate" THEN code ELSE ExitCode(h)
    /\ pc' = "done"

\* async with ClaudeSDKClient(...) as client: await client.connect()
Connect ==
    /\ pc = "connect"
    /\ sdk_calls' = sdk_calls \cup {"connect"}
    /\ \E result \in {"ok"} \cup SdkErrors :
        IF result = "ok"
        THEN /\ pc' = "query"
             /\ UNCHANGED <<logged, outcomes, exit_status, raised>>
        ELSE /\ raised' = [at |-> "connect", exc |-> result]
             /\ RaiseInTry(result, 1, logged, outcomes)
    /\ UNCHANGED <<tracker, tools_used, claude_reasoning_count, seen, report,
                   summary>>

\* await client.query(optimizer_prompt); claude_reasoning_count = 0
Query ==
    /\ pc = "query"
    /\ sdk_calls' = sdk_calls \cup {"query"}
    /\ \E result \in {"ok"} \cup SdkErrors :
        IF result = "ok"
        THEN /\ pc' = "recv"
             /\ claude_reasoning_count' = 0
             /\ UNCHANGED <<logged, outcomes, exit_status, raised>>
        ELSE /\ raised' = [at |-> "query", exc |-> result]
             /\ RaiseInTry(result, 1, logged, outcomes)
             /\ UNCHANGED claude_reasoning_count
    /\ UNCHANGED <<tracker, tools_used, seen, report,
                   summary>>

\* async for message in client.receive_response(): an AssistantMessage
ReceiveAssistant ==
    /\ pc = "recv"
    /\ Len(seen) < MaxEvents
    /\ pc' = "blocks"
    /\ UNCHANGED <<tracker, tools_used, claude_reasoning_count, logged,
                   exit_status, outcomes, sdk_calls, seen, raised, report,
                   summary>>

\* a message of any other class fails the isinstance test and is skipped
ReceiveOther ==
    /\ pc = "recv"
    /\ UNCHANGED vars

\* the response stream raises
StreamError ==
    /\ pc = "recv"
    /\ \E exc \in SdkErrors :
        /\ raised' = [at |-> "stream", exc |-> exc]
        /\ RaiseInTry(exc, 1, logged, outcomes)
    /\ UNCHANGED <<tracker, tools_used, claude_reasoning_count, sdk_calls,
                   seen, report,
                   summary>>

\* the end of the stream taken as the end of the run
StreamEnd_SkipsReportCheck ==
    /\ pc = "recv"
    /\ pc' = "done"
    /\ outcomes' = Append(outcomes, "Success")
    /\ exit_status' = 0
    /\ UNCHANGED <<tracker, tools_used, claude_reasoning_count, logged,
                   sdk_calls, seen, raised, report, summary>>

\* the response stream ends
StreamEnd ==
    /\ pc = "recv"
    /\ pc' = "summary"
    /\ UNCHANGED <<tracker, tools_used, claude_reasoning_count, logged,
                   exit_status, outcomes, sdk_calls, seen, raised, report,
                   summary>>

\* add_file_read changed to skip an absent (empty) path
add_file_read_SkipEmpty(t, path) ==
    IF path = <<>> THEN t ELSE [t EXCEPT !.files_read = Append(@, path)]

\* ProgressTracker.add_*
add_file_read(t, path) == [t EXCEPT !.files_read = Append(@, path)]
add_file_written(t, path) == [t EXCEPT !.files_written = Append(@, path)]
add_search(t, pattern) == [t EXCEPT !.searches_performed = Append(@, pattern)]

\* the command put in place of the ones recorded before
add_command_Replaces(t, cmd) == [t EXCEPT !.commands_run = <<cmd>>]

add_command(t, cmd) == [t EXCEPT !.commands_run = Append(@, cmd)]

\* tools_used.add moved into the branches of the recognized tools
ToolsAdd_RecognizedOnly(s, tool_name) ==
    IF tool_name \in {"Read", "Write", "MultiEdit", "Edit", "Bash", "Grep", "Glob"}
    THEN s \cup {tool_name} ELSE s

\* tools_used.add(tool_name)
ToolsAdd(s, tool_name) == s \cup {tool_name}

\* the sampling rule showing the odd ordinals
ShouldDisplay_OddSampling(count, text) == count % 2 = 1 \/ HasKeyword(text)

\* the keyword test without text.lower()
ShouldDisplay_CaseSensitive(count, text) ==
    count % 2 = 0 \/ \E k \in Keywords : Contains(text, k)

\* claude_reasoning_count % 2 == 0 or any(keyword in text.lower() ...)
ShouldDisplay(count, text) == count % 2 = 0 \/ HasKeyword(text)

\* the cut made from the limit on
DisplayText_FromLimit(text) ==
    IF Len(text) >= TextLimit THEN Prefix(text, TextLimit) \o Ellipsis ELSE text

\* text[:100] + "..." if len(text) > 100 else text
DisplayText(text) ==
    IF Len(text) > TextLimit THEN Prefix(text, TextLimit) \o Ellipsis ELSE text

\* the block is done, the for loop goes on
Continue ==
    /\ pc' = "blocks"
    /\ UNCHANGED <<exit_status, outcomes, raised>>

\* the name test also accepting the lower-case spelling of "Read"
ToolIs_ReadAnyCase(tool_name, names) ==
    tool_name \in names \/ (tool_name = "read" /\ "Read" \in names)

\* tool_name == "..." and tool_name in [...]: exact string comparison
ToolIs(tool_name, names) == tool_name \in names

\* isinstance(block, ToolUseBlock)
OnToolUse(block, ev) ==
    LET tool_name == block.name
        input == block.input
    IN
    /\ tools_used' = ToolsAdd(tools_used, tool_name)
    /\ UNCHANGED claude_reasoning_count
    /\ IF ToolIs(tool_name, {"Read"})
       THEN LET file_path == Get(input, "file_path", <<>>) IN
            /\ logged' = Log(logged, Line("Reading", file_path, <<>>, ev))
            /\ tracker' = add_file_read(tracker, file_path)
            /\ Continue
       ELSE IF ToolIs(tool_name, {"Write", "MultiEdit", "Edit"})
       THEN LET file_path == Get(input, "file_path", <<>>) IN
            /\ logged' = Log(logged, Line("Writing", file_path, <<>>, ev))
            /\ tracker' = add_file_written(tracker, file_path)
            /\ Continue
       ELSE IF ToolIs(tool_name, {"Bash"})
       THEN LET value == Get(input, "command", <<>>) IN
            IF value = NoneValue
            THEN \* None[:100] raises TypeError
                 /\ raised' = [at |-> "block", exc |-> "Exception"]
                 /\ RaiseInTry("Exception", 1, logged, outcomes)
                 /\ UNCHANGED tracker
            ELSE LET command == Prefix(value, CommandLimit) IN
                 /\ logged' = Log(logged,
                                  Line("Running", command \o Ellipsis, <<>>, ev))
                 /\ tracker' = add_command(tracker, command)
                 /\ Continue
       ELSE IF ToolIs(tool_name, {"Grep"})
       THEN LET pattern == Get(input, "pattern", <<>>)
                path == Get(input, "path", <<".">>)
            IN
            /\ logged' = Log(logged, Line("Searching", pattern, path, ev))
            /\ tracker' = add_search(tracker, pattern)
            /\ Continue
       ELSE IF ToolIs(tool_name, {"Glob"})
       THEN LET pattern == Get(input, "pattern", <<>>) IN
            /\ logged' = Log(logged, Line("FindingFiles", pattern, <<>>, ev))
            /\ tracker' = add_search(tracker, pattern)
            /\ Continue
       ELSE /\ logged' = Log(logged, Line("UsingTool", <<>>, tool_name, ev))
            /\ UNCHANGED tracker
            /\ Continue

\* the failure line logged for every result that carries an is_error value
OnToolResult_AnyResult(block, ev) ==
    /\ logged' = IF block.is_error # "none"
                 THEN Log(logged, Line("ToolFailed", <<>>, <<>>, ev))
                 ELSE logged
    /\ UNCHANGED <<tracker, tools_used, claude_reasoning_count>>
    /\ Continue

\* isinstance(block, ToolResultBlock)
OnToolResult(block, ev) ==
    /\ logged' = IF block.is_error = "true"
                 THEN Log(logged, Line("ToolFailed", <<>>, <<>>, ev))
                 ELSE logged
    /\ UNCHANGED <<tracker, tools_used, claude_reasoning_count>>
    /\ Continue

\* isinstance(block, TextBlock) and block.text.strip()
OnText(block, ev) ==
    LET text == Strip(block.text)
        count == claude_reasoning_count + 1
    IN
    /\ claude_reasoning_count' = count
    /\ logged' = IF ShouldDisplay(count, text)
                 THEN Log(logged, Line("Claude", DisplayText(text), <<>>, ev))
                 ELSE logged
    /\ UNCHANGED <<tracker, tools_used>>
    /\ Continue

\* one iteration of `for block in message.content`, the block drawn from
\* the given set
ProcessBlockFrom(blocks) ==
    /\ pc = "blocks"
    /\ Len(seen) < MaxEvents
    /\ \E block \in blocks :
        LET ev == Len(seen) + 1 IN
        /\ seen' = Append(seen, block)
        /\ IF block.type = "ToolUseBlock" THEN OnToolUse(block, ev)
           ELSE IF block.type = "ToolResultBlock" THEN OnToolResult(block, ev)
           ELSE IF block.type = "TextBlock" /\ Strip(block.text) # <<>>
           THEN OnText(block, ev)
           ELSE /\ UNCHANGED <<tracker, tools_used, claude_reasoning_count,
                               logged>>
                /\ Continue
    /\ UNCHANGED <<sdk_calls, report,
                   summary>>

ProcessBlock == ProcessBlockFrom(BlockSamples)

\* message.content is exhausted
EndOfContent ==
    /\ pc = "blocks"
    /\ pc' = "recv"
    /\ UNCHANGED <<tracker, tools_used, claude_reasoning_count, logged,
                   exit_status, outcomes, sdk_calls, seen, raised, report,
                   summary>>

\* get_summary emptying the lists it has reported
get_summary_Drains(t) ==
    [text |-> <<Len(t.files_read), Len(t.files_written),
                Len(t.commands_run), Len(t.searches_performed)>>,
     self |-> [files_read |-> <<>>, files_written |-> <<>>,
               commands_run |-> <<>>, searches_performed |-> <<>>]]

\* ProgressTracker.get_summary: the four counts of the returned text (the
\* duration is not modelled), and the tracker as the call leaves it
get_summary(t) ==
    [text |-> <<Len(t.files_read), Len(t.files_written),
                Len(t.commands_run), Len(t.searches_performed)>>,
     self |-> t]

\* the lines logged between the end of the stream and the report check
Summarize ==
    /\ pc = "summary"
    /\ LET l1 == Log(logged, Line("CompletedSuccessfully", <<>>, <<>>, 0))
           l2 == IF tools_used # {}
                 THEN Log(l1, Line("ToolsUsed", <<>>, tools_used, 0))
                 ELSE l1
           result == get_summary(tracker)
       IN  /\ logged' = Log(l2, Line("Statistics", <<>>, result.text, 0))
           /\ tracker' = result.self
           /\ summary' = [counts |-> result.text, repeat |-> summary.repeat + 1]
    /\ pc' = "check"
    /\ UNCHANGED <<tools_used, claude_reasoning_count, exit_status,
                   outcomes, sdk_calls, seen, raised, report>>

\* recommendations_file.exists() and what follows, to the end of main()
CheckReport ==
    /\ pc = "check"
    /\ \E exists \in BOOLEAN, stat \in {"ok", "raises"}, read_ok \in BOOLEAN,
          is_github_actions \in BOOLEAN, write_ok \in BOOLEAN :
        IF ~exists
        THEN /\ report' = "missing"
             /\ UNCHANGED raised
             /\ RaiseInTry("SystemExit", ExitCode("NoReportProduced"),
                    Log(logged, Line("NoRecommendationsFile", <<>>, <<>>, 0)),
                    Append(outcomes, "NoReportProduced"))
        ELSE IF stat = "raises"
        THEN \* stat() raises OSError
             /\ report' = "stat_failed"
             /\ raised' = [at |-> "stat", exc |-> "Exception"]
             /\ RaiseInTry("Exception", 1, logged, outcomes)
        ELSE IF ~read_ok \/ (is_github_actions /\ ~write_ok)
        THEN \* read_text() or write_github_step_summary() raises
             /\ report' = IF read_ok THEN "write_failed" ELSE "read_failed"
             /\ UNCHANGED raised
             /\ RaiseInTry("SystemExit", ExitCode("ReportUnreadable"),
                    Log(Log(logged, Line("ReportFile", <<>>, <<>>, 0)),
                        Line("CouldNotRead", <<>>, <<>>, 0)),
                    Append(outcomes, "ReportUnreadable"))
        ELSE /\ report' = "ok"
             /\ UNCHANGED raised
             /\ logged' = Log(Log(Log(logged,
                                Line("ReportFile", <<>>, <<>>, 0)),
                                Line(IF is_github_actions
                                     THEN "WrittenToStepSummary"
                                     ELSE "AvailableInLocalFile",
                                     <<>>, <<>>, 0)),
                                Line("CompletedAt", <<>>, <<>>, 0))
             /\ outcomes' = Append(outcomes, "Success")
             /\ exit_status' = ExitCode("Success")
             /\ pc' = "done"
    /\ UNCHANGED <<tracker, tools_used, claude_reasoning_count, sdk_calls,
                   seen,
                   summary>>

Next ==
    \/ ValidateEnv
    \/ LoadPrompts
    \/ Connect
    \/ Query
    \/ ReceiveAssistant
    \/ ReceiveOther
    \/ StreamError
    \/ StreamEnd
    \/ ProcessBlock
    \/ EndOfContent
    \/ Summarize
    \/ CheckReport

Spec == Init /\ [][Next]_vars

\* ------------------------------------------- ProgressTracker on its own
\* bounds of the calls made on a ProgressTracker
MaxAdds == 3
MaxRepeat == 2

\* entries recorded so far
TrackerSize ==
    Len(tracker.files_read) + Len(tracker.files_written)
        + Len(tracker.commands_run) + Len(tracker.searches_performed)

\* a call of one of the four add_* methods
TrackerAdd ==
    /\ TrackerSize < MaxAdds
    /\ \E value \in {<<>>, PathA} :
        \/ tracker' = add_file_read(tracker, value)
        \/ tracker' = add_file_written(tracker, value)
        \/ tracker' = add_command(tracker, value)
        \/ tracker' = add_search(tracker, value)
    /\ summary' = [summary EXCEPT !.repeat = 0]
    /\ UNCHANGED <<pc, tools_used, claude_reasoning_count, logged,
                   exit_status, outcomes, sdk_calls, seen, raised, report>>

\* a call of get_summary, at any point
TrackerSummary ==
    /\ summary.repeat < MaxRepeat
    /\ LET result == get_summary(tracker) IN
        /\ tracker' = result.self
        /\ summary' = [counts |-> result.text, repeat |-> summary.repeat + 1]
    /\ UNCHANGED <<pc, tools_used, claude_reasoning_count, logged,
                   exit_status, outcomes, sdk_calls, seen, raised, report>>

NextTracker ==
    \/ TrackerAdd
    \/ TrackerSummary

\* a new ProgressTracker under every sequence of add_* and get_summary calls
SpecTracker == Init /\ [][NextTracker]_vars

\* ------------------------------------------ texts around the display limit
\* a text and a command of exactly the limit, and the text with whitespace
\* around it
TextAtLimit == [i \in 1..TextLimit |-> "y"]
TextPadded == <<" ">> \o TextAtLimit \o <<"\n">>
CmdAtLimit == [i \in 1..CommandLimit |-> "x"]

DisplaySamples ==
    { TextBlock(TextPlain), TextBlock(TextAtLimit), TextBlock(TextPadded),
      TextBlock(TextLong),
      ToolUseBlock("Bash", [command |-> CmdShort]),
      ToolUseBlock("Bash", [command |-> CmdAtLimit]),
      ToolUseBlock("Bash", [command |-> CmdLong]) }

ProcessDisplayBlock == ProcessBlockFrom(DisplaySamples)

NextDisplay ==
    \/ ValidateEnv
    \/ LoadPrompts
    \/ Connect
    \/ Query
    \/ ReceiveAssistant
    \/ ReceiveOther
    \/ StreamError
    \/ StreamEnd
    \/ ProcessDisplayBlock
    \/ EndOfContent
    \/ Summarize
    \/ CheckReport

\* the program on streams of texts and commands around the display limit
SpecDisplay == Init /\ [][NextDisplay]_vars


\* ------------------------------------------------------------ properties
\* number of blocks seen that are tool invocations with a name in names
ToolCount(names) ==
    Cardinality({i \in DOMAIN seen :
                    seen[i].type = "ToolUseBlock" /\ seen[i].name \in names})

\* the streaming loop has ended normally and nothing has been logged since
StreamEnded == pc = "summary"

\* C1: when the stream has ended, the lengths of the four tracker lists are
\* the numbers of tool invocations seen that are named Read, one of
\* Write/MultiEdit/Edit, Bash, and one of Grep/Glob; parameters that are
\* absent, and every other block, make no difference.
C1_CountingInvariant ==
    StreamEnded =>
        /\ Len(tracker.files_read) = ToolCount({"Read"})
        /\ Len(tracker.files_written) = ToolCount({"Write", "MultiEdit", "Edit"})
        /\ Len(tracker.commands_run) = ToolCount({"Bash"})
        /\ Len(tracker.searches_performed) = ToolCount({"Grep", "Glob"})

\* a stream that ended after a Read without file_path, a Glob without
\* pattern, and a block that is not a recognized invocation
C1_Witness ==
    /\ StreamEnded
    /\ \E i \in DOMAIN seen : seen[i] = ToolUseBlock("Read", NoInput)
    /\ \E i \in DOMAIN seen : seen[i] = ToolUseBlock("Glob", NoInput)
    /\ \E i \in DOMAIN seen :
          \/ seen[i].type # "ToolUseBlock"
          \/ seen[i].name \in {"TodoWrite", "read"}
    /\ Len(tracker.files_read) = 1
    /\ Len(tracker.searches_performed) = 1

\* C2: tools_used is the set of names of the tool invocations seen, whatever
\* their order and repetition, recognized or not.
C2_ToolsUsedIsNameSet ==
    tools_used = {seen[i].name : i \in {j \in DOMAIN seen :
                                          seen[j].type = "ToolUseBlock"}}

\* a repeated tool, an unrecognized tool and a reasoning block were processed
C2_Witness ==
    /\ Len(seen) = 3
    /\ pc = "blocks"
    /\ \E i, j \in DOMAIN seen :
          /\ i # j
          /\ seen[i].type = "ToolUseBlock" /\ seen[j].type = "ToolUseBlock"
          /\ seen[i].name = seen[j].name
          /\ seen[i].name = "TodoWrite"
    /\ \E i \in DOMAIN seen : seen[i].type = "TextBlock"
    /\ tools_used = {"TodoWrite"}

\* the blocks seen that are Bash invocations, in order
BashSeen == SelectSeq(seen, LAMBDA b : b.type = "ToolUseBlock" /\ b.name = "Bash")

\* C3: the entries of commands_run are the full command parameters of the
\* Bash invocations seen, in order, whatever their length.
C3_FullCommandRecorded ==
    StreamEnded =>
        tracker.commands_run =
            [i \in 1..Len(BashSeen) |-> Get(BashSeen[i].input, "command", <<>>)]


\* the run has ended
Done == pc = "done"

\* the report check found the file
ReportExists == report \in {"ok", "stat_failed", "read_failed", "write_failed"}

\* C4 as stated: after a normal end of stream the existence of the report
\* alone decides: it exists => Success and status 0; it does not exist =>
\* NoReportProduced and a non-zero status; status 0 only with Success.
C4_ExistenceAloneDecides ==
    Done =>
        /\ ReportExists => outcomes = <<"Success">> /\ exit_status = 0
        /\ report = "missing" =>
              outcomes = <<"NoReportProduced">> /\ exit_status # 0
        /\ exit_status = 0 => outcomes = <<"Success">>

\* C4 (amended): after a normal end of stream, a report that exists and whose
\* size query, read and step-summary write all succeed gives Success and
\* status 0; a report that exists but whose size query, read or step-summary
\* write fails gives a non-zero status and no Success; a missing report gives
\* NoReportProduced and a non-zero status; status 0 only with Success.
C4_ReportCheckDecides ==
    Done =>
        /\ report = "ok" => outcomes = <<"Success">> /\ exit_status = 0
        /\ report \in {"read_failed", "write_failed"} =>
              outcomes = <<"ReportUnreadable">> /\ exit_status = 1
        /\ report = "stat_failed" =>
              outcomes = <<"UnexpectedFailure">> /\ exit_status = 1
        /\ report = "missing" =>
              outcomes = <<"NoReportProduced">> /\ exit_status = 1
        /\ exit_status = 0 => outcomes = <<"Success">> /\ report = "ok"

\* a run over a full stream whose report exists but cannot be read
C4_Witness ==
    /\ Done
    /\ report = "read_failed"
    /\ exit_status = 1
    /\ Len(seen) = MaxEvents

\* the lines of the log that blocks produced
EventLines == SelectSeq(logged, LAMBDA l : l.ev > 0)

\* the log has a line of this kind
HasLine(kind) == \E k \in DOMAIN logged : logged[k].kind = kind

\* C5: a failing connect() ends the run with no block processed, nothing
\* recorded and no event line; CLINotFoundError gives SessionToolingMissing,
\* ProcessError gives SessionProcessFailed, each with its own message, and
\* the exit status is non-zero.
C5_ConnectFailure ==
    raised.at = "connect" =>
        /\ Done
        /\ seen = <<>> /\ tracker = NewTracker /\ tools_used = {}
        /\ EventLines = <<>>
        /\ "query" \notin sdk_calls
        /\ raised.exc = "CLINotFoundError" =>
              /\ outcomes = <<"SessionToolingMissing">>
              /\ HasLine("ClaudeCliNotFound") /\ ~HasLine("ClaudeProcessError")
              /\ exit_status = 1
        /\ raised.exc = "ProcessError" =>
              /\ outcomes = <<"SessionProcessFailed">>
              /\ HasLine("ClaudeProcessError") /\ ~HasLine("ClaudeCliNotFound")
              /\ exit_status = 1

\* connect() raised CLINotFoundError and the run has ended
C5_Witness ==
    /\ raised = [at |-> "connect", exc |-> "CLINotFoundError"]
    /\ Done
    /\ outcomes = <<"SessionToolingMissing">>

\* C6: an exception of neither named kind raised while the stream is
\* consumed is handled once: one UnexpectedError line, the single outcome
\* UnexpectedFailure, exit status non-zero, however many blocks came before.
C6_UnexpectedFailure ==
    (raised.at \in {"stream", "block"} /\ raised.exc = "Exception") =>
        /\ Done
        /\ outcomes = <<"UnexpectedFailure">>
        /\ Cardinality({k \in DOMAIN logged :
                            logged[k].kind = "UnexpectedError"}) = 1
        /\ ~HasLine("ClaudeCliNotFound") /\ ~HasLine("ClaudeProcessError")
        /\ exit_status = 1

\* the stream raised after two blocks had been processed
C6_Witness ==
    /\ raised = [at |-> "stream", exc |-> "Exception"]
    /\ Len(seen) = 2
    /\ tools_used # {}
    /\ outcomes = <<"UnexpectedFailure">>

SessionOutcomes ==
    {"Success", "NoReportProduced", "SessionToolingMissing",
     "SessionProcessFailed", "UnexpectedFailure"}

\* nothing changes once the run has ended
Terminal == [][Done => UNCHANGED vars]_vars

\* C7 as stated: every run that opens the session ends with exactly one
\* outcome, one of Success, NoReportProduced, SessionToolingMissing,
\* SessionProcessFailed, UnexpectedFailure, and nothing happens after it.
C7_OneOfFiveOutcomes ==
    /\ [](Done /\ sdk_calls # {} =>
            Len(outcomes) = 1 /\ outcomes[1] \in SessionOutcomes)
    /\ Terminal

\* C7 (amended): no outcome is reported before the run ends; a run that ends
\* reports exactly one: ConfigurationError or PromptLoadError if it ends
\* before the session is opened, otherwise one of the five session outcomes
\* or ReportUnreadable (the report exists but reading it or writing the step
\* summary failed); nothing changes after it.
C7_ExactlyOneOutcome ==
    /\ [](/\ ~Done => outcomes = <<>>
          /\ Done => Len(outcomes) = 1
          /\ Done /\ sdk_calls = {} =>
                outcomes[1] \in {"ConfigurationError", "PromptLoadError"}
          /\ Done /\ sdk_calls # {} =>
                outcomes[1] \in SessionOutcomes \cup {"ReportUnreadable"})
    /\ Terminal

\* a run ended by the sys.exit(1) of the missing-report branch, inside the
\* guarded block, after blocks were processed
C7_Witness ==
    /\ Done
    /\ report = "missing"
    /\ outcomes = <<"NoReportProduced">>
    /\ seen # <<>>

\* the text has a character that is not whitespace
NonBlank(text) == \E i \in DOMAIN text : text[i] \notin Whitespace

\* positions in seen of the non-empty reasoning blocks
ReasoningSeen ==
    {i \in DOMAIN seen : seen[i].type = "TextBlock" /\ NonBlank(seen[i].text)}

\* 1-indexed ordinal, among the positions rs, of position i
Ordinal(rs, i) == Cardinality({j \in rs : j <= i})

\* positions of the blocks that have a reasoning line in the log
ReasoningShown ==
    {logged[k].ev : k \in {n \in DOMAIN logged : logged[n].kind = "Claude"}}

\* the sample texts that contain a keyword in some letter case
KeywordTexts ==
    {t \in TextSamples : \E k \in Keywords : Contains(Lower(t), k)}

\* no reasoning block seen so far contains a keyword
NoKeywordSeen ==
    \A i \in ReasoningSeen : seen[i].text \notin KeywordTexts

\* C8: while no reasoning block contains a keyword, the reasoning lines in
\* the log are those of the blocks at even ordinals, floor(N/2) lines for N
\* non-empty reasoning blocks, whatever other blocks lie between them.
C8_EvenOrdinalsShown ==
    LET rs == ReasoningSeen IN
    NoKeywordSeen =>
        /\ ReasoningShown = {i \in rs : Ordinal(rs, i) % 2 = 0}
        /\ Cardinality({k \in DOMAIN logged : logged[k].kind = "Claude"})
              = Cardinality(rs) \div 2

\* two keyword-free reasoning blocks with a tool invocation between them
C8_Witness ==
    /\ Len(seen) = 3
    /\ NoKeywordSeen
    /\ ReasoningSeen = {1, 3}
    /\ seen[2].type = "ToolUseBlock"
    /\ ReasoningShown = {3}

\* C9: every non-empty reasoning block whose text contains a keyword in any
\* letter case has its line in the log, at odd ordinals too.
C9_KeywordAlwaysShown ==
    \A i \in ReasoningSeen :
        seen[i].text \in KeywordTexts => i \in ReasoningShown

\* an upper-case "COMPLETE" text shown at ordinals 1 and 3
C9_Witness ==
    /\ Len(seen) = 3
    /\ seen[1] = TextBlock(TextDone) /\ seen[3] = TextBlock(TextDone)
    /\ claude_reasoning_count = 3
    /\ {1, 3} \subseteq ReasoningShown

\* C10: the event lines of the log are in the arrival order of the blocks
\* that produced them, and every one belongs to a block already taken.
C10_DisplayInArrivalOrder ==
    /\ \A i, j \in DOMAIN EventLines :
          i < j => EventLines[i].ev < EventLines[j].ev
    /\ \A i \in DOMAIN EventLines : EventLines[i].ev <= Len(seen)

\* three blocks, each with its line, in order
C10_Witness ==
    /\ Len(EventLines) = 3
    /\ EventLines[1].kind = "Reading"
    /\ EventLines[2].kind = "Claude"
    /\ EventLines[3].kind = "ToolFailed"


\* the category the table gives a tool name
CategoryOf(name) ==
    IF name = "Read" THEN "FileRead"
    ELSE IF name \in {"Write", "MultiEdit", "Edit"} THEN "FileWrite"
    ELSE IF name = "Bash" THEN "CommandRun"
    ELSE IF name \in {"Grep", "Glob"} THEN "Search"
    ELSE "GenericTool"

\* the tracker list of each category, and the kinds of line it is shown with
ListOf(category) ==
    IF category = "FileRead" THEN "files_read"
    ELSE IF category = "FileWrite" THEN "files_written"
    ELSE IF category = "CommandRun" THEN "commands_run"
    ELSE IF category = "Search" THEN "searches_performed"
    ELSE "none"
LineKindsOf(category) ==
    IF category = "FileRead" THEN {"Reading"}
    ELSE IF category = "FileWrite" THEN {"Writing"}
    ELSE IF category = "CommandRun" THEN {"Running"}
    ELSE IF category = "Search" THEN {"Searching", "FindingFiles"}
    ELSE {"UsingTool"}

TrackerLists ==
    {"files_read", "files_written", "commands_run", "searches_performed"}

\* this step takes a block of the given type from the message
Takes(type) ==
    /\ Len(seen') = Len(seen) + 1
    /\ seen'[Len(seen')].type = type

\* this step takes a block of the given type and handles it to the end
Handles(type) == Takes(type) /\ pc' = "blocks"

\* C11: a tool invocation is shown and recorded according to its name alone,
\* compared exactly: the line is of the kind of the name's category and
\* exactly the list of that category grows by one; any other name, "read"
\* included, is shown with the tool name and grows no list; the parameters
\* change none of this (the one step that is not handled to the end, a
\* command that cannot be sliced, is in the branch of its name too).
C11_ClassifiedByNameOnly ==
    [][Takes("ToolUseBlock") =>
        LET name == seen'[Len(seen')].name
            category == CategoryOf(name)
            last == logged'[Len(logged')]
        IN  IF pc' = "blocks"
            THEN /\ Len(logged') = Len(logged) + 1
                 /\ last.kind \in LineKindsOf(category)
                 /\ last.ev = Len(seen')
                 /\ category = "GenericTool" => last.extra = name
                 /\ \A l \in TrackerLists :
                       Len(tracker'[l]) =
                           Len(tracker[l])
                               + (IF l = ListOf(category) THEN 1 ELSE 0)
            ELSE category = "CommandRun" /\ raised'.at = "block"
      ]_vars

\* "read" and "Read" have both been handled, with and without parameters:
\* two lines of different kinds, one entry in files_read
C11_Witness ==
    /\ Len(seen) = 3
    /\ seen[1] = ToolUseBlock("read", [file_path |-> PathA])
    /\ seen[2] = ToolUseBlock("Read", NoInput)
    /\ seen[3] = ToolUseBlock("Read", [file_path |-> PathA])
    /\ logged[1].kind = "UsingTool"
    /\ logged[2].kind = "Reading"
    /\ tracker.files_read = <<<<>>, PathA>>


\* this step is a call of get_summary
SummaryCall == summary'.repeat = summary.repeat + 1

\* C12: a call of get_summary, at any point and any number of times, leaves
\* the four lists as they are, and a call that follows another with no add_*
\* call between them returns the same counts.
C12_SummaryIsPure ==
    [][SummaryCall =>
          /\ tracker' = tracker
          /\ summary.repeat >= 1 => summary'.counts = summary.counts
      ]_vars

\* get_summary called twice in a row on a tracker that holds entries
C12_Witness ==
    /\ summary.repeat = 2
    /\ TrackerSize = MaxAdds
    /\ tracker.commands_run # <<>>
    /\ summary.counts[3] = Len(tracker.commands_run)


\* query() returned: the run has entered the streaming loop
StreamingReached ==
    "query" \in sdk_calls /\ raised.at \notin {"connect", "query"}

\* C13 as stated: every run that reaches the streaming loop has performed
\* the report check when it ends, also when an error was raised mid-stream.
C13_AlwaysFinalizes ==
    (/\ Done
     /\ StreamingReached
     /\ raised.at \in {"stream", "block"} => raised.exc = "Exception")
        => report # "unchecked"

\* C13 (amended): a run that reaches the streaming loop performs the report
\* check before it ends if and only if its stream ends normally; a run in
\* which an error is raised mid-stream ends without the report check.
C13_FinalizesOnNormalEndOnly ==
    (Done /\ StreamingReached) =>
        (report # "unchecked" <=> raised.at \notin {"stream", "block"})

\* a run ended by an error raised mid-stream, after blocks were processed,
\* without any report check
C13_Witness ==
    /\ Done
    /\ raised.at = "stream"
    /\ seen # <<>>
    /\ report = "unchecked"
    /\ exit_status = 1


\* the lines of the log produced by the block at position i
LinesOf(i) == {k \in DOMAIN logged : logged[k].ev = i}

\* C14: every tool invocation seen, whatever its name, and every tool result
\* seen with is_error true has exactly one line in the log.
C14_NeverSuppressed ==
    \A i \in DOMAIN seen :
        (\/ seen[i].type = "ToolUseBlock"
         \/ (seen[i].type = "ToolResultBlock" /\ seen[i].is_error = "true"))
            => Cardinality(LinesOf(i)) = 1


\* C15: handling a tool result changes none of the four lists, tools_used or
\* the reasoning counter, and logs exactly one failure line if is_error is
\* true and nothing otherwise; handling a reasoning block changes none of
\* the four lists nor tools_used.
C15_ResultsAndReasoningRecordNothing ==
    [][/\ Takes("ToolResultBlock") =>
            /\ tracker' = tracker
            /\ tools_used' = tools_used
            /\ claude_reasoning_count' = claude_reasoning_count
            /\ logged' =
                 IF seen'[Len(seen')].is_error = "true"
                 THEN Append(logged,
                             Line("ToolFailed", <<>>, <<>>, Len(seen')))
                 ELSE logged
       /\ Takes("TextBlock") =>
            /\ tracker' = tracker
            /\ tools_used' = tools_used
      ]_vars

\* after a Read, a successful and a failed result have been handled: one
\* failure line, the lists, tools_used and the counter as the Read left them
C15_Witness ==
    /\ Len(seen) = MaxEvents
    /\ seen[1] = ToolUseBlock("Read", [file_path |-> PathA])
    /\ seen[Len(seen) - 1] = ToolResultBlock("false")
    /\ seen[Len(seen)] = ToolResultBlock("true")
    /\ [k \in DOMAIN logged |-> logged[k].kind] = <<"Reading", "ToolFailed">>
    /\ tracker.files_read = <<PathA>>
    /\ tools_used = {"Read"}
    /\ claude_reasoning_count = 0


\* C16: a reasoning block whose text is empty or only whitespace logs nothing
\* and leaves the reasoning counter alone; the counter never decreases and
\* always equals the number of non-blank reasoning blocks seen so far, shown
\* or not.
C16_CounterCountsNonBlankReasoning ==
    /\ [](claude_reasoning_count = Cardinality(ReasoningSeen))
    /\ [][/\ claude_reasoning_count' >= claude_reasoning_count
          /\ (Takes("TextBlock") /\ ~NonBlank(seen'[Len(seen')].text)) =>
                /\ logged' = logged
                /\ claude_reasoning_count' = claude_reasoning_count
          /\ (Takes("TextBlock") /\ NonBlank(seen'[Len(seen')].text)) =>
                claude_reasoning_count' = claude_reasoning_count + 1
         ]_vars

\* a plain text counted but not shown, a blank text, then a keyword text
\* counted as the second and shown
C16_Witness ==
    /\ seen = <<TextBlock(TextPlain), TextBlock(TextBlank), TextBlock(TextDone)>>
    /\ claude_reasoning_count = 2
    /\ Len(logged) = 1
    /\ logged[1].kind = "Claude"
    /\ logged[1].ev = 3


\* the errors of validation and of prompt loading
ConfigurationLines ==
    {"ApiKeyRequired", "ContextFileRequired", "InvalidContextFile"}

PromptLines ==
    {"SystemPromptNotFound", "OptimizerPromptNotFound", "ErrorReadingPrompts"}

EarlyFailure == \E k \in ConfigurationLines \cup PromptLines : HasLine(k)

\* C17: once a missing API key, a missing or invalid CONTEXT_FILE or a
\* missing prompt file has been reported, the process has ended with status
\* 1 and, in that run, connect() and query() were never called and no block
\* was processed.
C17_EarlyFailureBeforeSession ==
    EarlyFailure =>
        /\ Done
        /\ exit_status = 1
        /\ sdk_calls = {}
        /\ seen = <<>>
        /\ EventLines = <<>>
        /\ outcomes \in {<<"ConfigurationError">>, <<"PromptLoadError">>}

\* validation passed, then a prompt file was found in neither location
C17_Witness ==
    /\ Done
    /\ HasLine("OptimizerPromptNotFound")
    /\ outcomes = <<"PromptLoadError">>
    /\ exit_status = 1
    /\ sdk_calls = {}


\* the line logged for event i (there is at most one)
LineOf(i) == logged[CHOOSE k \in LinesOf(i) : TRUE]

\* event i is a text or a command that was put on display, and the text
\* that was up for display
Displayed(i) ==
    /\ LinesOf(i) # {}
    /\ \/ seen[i].type = "TextBlock"
       \/ seen[i].type = "ToolUseBlock" /\ seen[i].name = "Bash"

Source(i) ==
    IF seen[i].type = "TextBlock" THEN Strip(seen[i].text)
    ELSE seen[i].input.command

\* shown is the first 100 characters of t followed by "..."
CutTo100(shown, t) ==
    /\ Len(shown) = 103
    /\ \A k \in 1..100 : shown[k] = t[k]
    /\ <<shown[101], shown[102], shown[103]>> = <<".", ".", ".">>

\* C18 as stated: a displayed reasoning text or Bash command of at most 100
\* characters is shown in full without the ellipsis, a longer one as its
\* first 100 characters followed by the ellipsis.
C18_EllipsisExactlyWhenLonger ==
    \A i \in DOMAIN seen :
        Displayed(i) =>
            LET t == Source(i)
                shown == LineOf(i).text
            IN  IF Len(t) <= 100 THEN shown = t ELSE CutTo100(shown, t)

\* C18 (as the code has it): a displayed reasoning text of at most 100
\* characters, surrounding whitespace removed, is shown in full without the
\* ellipsis and a longer one as its first 100 characters followed by the
\* ellipsis; a Bash command is shown as its first 100 characters (all of it
\* when it is shorter) always followed by the ellipsis.
C18_DisplayTruncation ==
    \A i \in DOMAIN seen :
        Displayed(i) =>
            LET t == Source(i)
                shown == LineOf(i).text
            IN  IF seen[i].type = "TextBlock"
                THEN IF Len(t) <= 100 THEN shown = t ELSE CutTo100(shown, t)
                ELSE IF Len(t) >= 100 THEN CutTo100(shown, t)
                ELSE /\ Len(shown) = Len(t) + 3
                     /\ \A k \in 1..Len(t) : shown[k] = t[k]
                     /\ \A k \in (Len(t) + 1)..Len(shown) : shown[k] = "."

\* a short command shown with the ellipsis, then a text of 101 characters
\* counted first and not shown, then a text of exactly 100 characters shown
\* in full
C18_Witness ==
    /\ seen = <<ToolUseBlock("Bash", [command |-> CmdShort]),
                TextBlock(TextLong), TextBlock(TextPadded)>>
    /\ Len(logged) = 2
    /\ logged[1].text = <<"l", "s", ".", ".", ".">>
    /\ logged[2].text = TextAtLimit


\* l is a prefix of m
IsPrefix(l, m) ==
    /\ Len(l) <= Len(m)
    /\ \A k \in DOMAIN l : m[k] = l[k]

Grown(t, u) ==
    Len(u.files_read) + Len(u.files_written) + Len(u.commands_run)
      + Len(u.searches_performed)
    - (Len(t.files_read) + Len(t.files_written) + Len(t.commands_run)
         + Len(t.searches_performed))

\* C19: in every step each of the four lists is a prefix of its next value,
\* a step that handles no block leaves them as they are and a step that
\* handles one adds at most one entry in all, and tools_used only grows.
C19_StatsAppendOnly ==
    [][/\ \A l \in TrackerLists : IsPrefix(tracker[l], tracker'[l])
       /\ Grown(tracker, tracker') <= (IF Len(seen') = Len(seen) + 1 THEN 1 ELSE 0)
       /\ tools_used \subseteq tools_used'
      ]_vars

\* a file read and two commands run, recorded in the order they came
C19_Witness ==
    /\ Len(seen) = 3
    /\ tracker.files_read = <<PathA>>
    /\ tracker.commands_run = <<CmdShort, Prefix(CmdLong, CommandLimit)>>
    /\ tools_used = {"Read", "Bash"}


\* C20: a run that has logged "completed successfully" ends as Success with
\* exit status 0.
C20_CompletedOnlyOnSuccess ==
    (Done /\ HasLine("CompletedSuccessfully")) =>
        /\ outcomes = <<"Success">>
        /\ exit_status = 0

====
